---- MODULE Spec2Model ----
(***************************************************************************)
(* Model of the Notion database adapter (src/server/server.js): the schema *)
(* cache (getDatabaseSchema), the property codec (extractPropertyValue,    *)
(* setPropertyValue) and the route handlers that translate records.        *)
(***************************************************************************)
EXTENDS Integers, Sequences, FiniteSets, TLC

(***************************************************************************)
(* JavaScript values.  Every value carries its runtime type in `kind`, so  *)
(* that typeof, truthiness, String() and Boolean() can be computed as the  *)
(* language computes them.                                                 *)
(***************************************************************************)
Undefined == [kind |-> "undefined"]
Null == [kind |-> "null"]
Str(s) == [kind |-> "string", val |-> s]
Bool(b) == [kind |-> "boolean", val |-> b]
Num(n) == [kind |-> "number", val |-> n]
NaN == [kind |-> "NaN"]
Arr(a) == [kind |-> "array", val |-> a]

\* if (v) ... / !v / v || w
Truthy(v) ==
  CASE v.kind = "string" -> v.val # ""
    [] v.kind = "boolean" -> v.val
    [] v.kind = "number" -> v.val # 0
    [] v.kind = "array" -> TRUE
    [] OTHER -> FALSE

\* a || b
OrElse(a, b) == IF Truthy(a) THEN a ELSE b

RECURSIVE JoinStrings(_, _)
\* Array.prototype.join(sep) on an array of strings
JoinStrings(seq, sep) ==
  IF seq = <<>> THEN ""
  ELSE IF Len(seq) = 1 THEN seq[1]
  ELSE seq[1] \o sep \o JoinStrings(Tail(seq), sep)

NumberToString(n) ==
  CASE n = 0 -> "0"
    [] n = 1 -> "1"
    [] n = 5 -> "5"

RECURSIVE ToStr(_)
\* String(value)
ToStr(v) ==
  CASE v.kind = "string" -> v.val
    [] v.kind = "boolean" -> IF v.val THEN "true" ELSE "false"
    [] v.kind = "number" -> NumberToString(v.val)
    [] v.kind = "NaN" -> "NaN"
    [] v.kind = "null" -> "null"
    [] v.kind = "undefined" -> "undefined"
    [] v.kind = "array" ->
         JoinStrings([i \in 1..Len(v.val) |->
                        IF v.val[i].kind \in {"null", "undefined"} THEN ""
                        ELSE ToStr(v.val[i])], ",")

\* Number(value), on the strings the requests of this model carry
ToNum(v) ==
  CASE v.kind = "number" -> v
    [] v.kind = "boolean" -> IF v.val THEN Num(1) ELSE Num(0)
    [] v.kind = "string" ->
         (CASE v.val = "" -> Num(0)
            [] v.val = "0" -> Num(0)
            [] v.val = "1" -> Num(1)
            [] v.val = "5" -> Num(5)
            [] OTHER -> NaN)
    [] v.kind = "null" -> Num(0)
    [] OTHER -> NaN

\* String.prototype.toLowerCase, on the strings the model uses
Lower(s) ==
  CASE s \in {"Done", "DONE", "done"} -> "done"
    [] s \in {"Complete", "complete"} -> "complete"
    [] s \in {"Completed", "COMPLETED", "completed"} -> "completed"
    [] s \in {"Todo", "todo"} -> "todo"
    [] s \in {"Doing", "doing"} -> "doing"
    [] s \in {"Blocked", "blocked"} -> "blocked"
    [] s \in {"A", "a"} -> "a"
    [] s \in {"", "null", "true", "false", "hi", "x"} -> s

\* the vocabulary ['done','complete','completed'] of lines 146, 220 and 221
DoneWords == {"done", "complete", "completed"}

\* ['done','complete','completed'].includes(name.toLowerCase())
IsDoneLike(name) == Lower(name) \in DoneWords

(***************************************************************************)
(* The database as the store describes it: database.properties, in the     *)
(* order Object.entries enumerates it.  A property definition carries its  *)
(* name, its type and, for a status property, status.options (the names).  *)
(***************************************************************************)
Def(name, type, options) == [name |-> name, type |-> type, options |-> options]

NoDef == [name |-> "", type |-> "undefined", options |-> <<>>]

\* obj[key] on database.properties: the definition named key, or undefined
Lookup(props, key) ==
  IF \E i \in 1..Len(props) : props[i].name = key
  THEN props[CHOOSE i \in 1..Len(props) : props[i].name = key]
  ELSE NoDef

\* Object.entries(props).filter(([, prop]) => types.includes(prop.type)).map(([key]) => key)
KeysOfType(props, types) ==
  LET hit == SelectSeq(props, LAMBDA d : d.type \in types)
  IN  [i \in 1..Len(hit) |-> hit[i].name]

\* Object.entries(props).find(([, prop]) => prop.type === 'title')?.[0]
FindTitle(props) ==
  LET hit == KeysOfType(props, {"title"})
  IN  IF hit = <<>> THEN Undefined ELSE Str(hit[1])

\* the object getDatabaseSchema builds from the retrieved database
BuildSchema(props) ==
  [properties |-> props,
   titleProperty |-> FindTitle(props),
   checkboxProperties |-> KeysOfType(props, {"checkbox", "status"}),
   dateProperties |-> KeysOfType(props, {"date"}),
   selectProperties |-> KeysOfType(props, {"select", "multi_select"}),
   textProperties |-> KeysOfType(props, {"rich_text"}),
   urlProperties |-> KeysOfType(props, {"url"}),
   numberProperties |-> KeysOfType(props, {"number"})]

(***************************************************************************)
(* A page property as the store returns it: [type, value].  value is the   *)
(* sequence of plain_text runs (title, rich_text), the sequence of option  *)
(* names (multi_select), the option name or null (select, status), the     *)
(* date's start or null, or the scalar itself (checkbox, url, number).     *)
(***************************************************************************)
Prop(type, value) == [type |-> type, value |-> value]

\* extractPropertyValue if line 68 ended in `|| null` for an empty selection,
\* as the select, date and status cases do
extractPropertyValueEmptyAsNull(property) ==
  IF property = Undefined THEN Null
  ELSE CASE property.type = "title" -> Str(JoinStrings(property.value, ""))
         [] property.type = "rich_text" -> Str(JoinStrings(property.value, ""))
         [] property.type = "select" -> OrElse(property.value, Null)
         [] property.type = "multi_select" ->
              IF property.value = <<>> THEN Null
              ELSE Arr([i \in 1..Len(property.value) |-> Str(property.value[i])])
         [] property.type = "checkbox" -> property.value
         [] property.type = "date" -> OrElse(property.value, Null)
         [] property.type = "url" -> property.value
         [] property.type = "number" -> property.value
         [] property.type = "status" -> OrElse(property.value, Null)
         [] OTHER -> Null

\* extractPropertyValue(property); Undefined stands for a missing property
extractPropertyValue(property) ==
  IF property = Undefined THEN Null
  ELSE CASE property.type = "title" -> Str(JoinStrings(property.value, ""))
         [] property.type = "rich_text" -> Str(JoinStrings(property.value, ""))
         [] property.type = "select" -> OrElse(property.value, Null)
         [] property.type = "multi_select" ->
              Arr([i \in 1..Len(property.value) |-> Str(property.value[i])])
         [] property.type = "checkbox" -> property.value
         [] property.type = "date" -> OrElse(property.value, Null)
         [] property.type = "url" -> property.value
         [] property.type = "number" -> property.value
         [] property.type = "status" -> OrElse(property.value, Null)
         [] OTHER -> Null

(***************************************************************************)
(* The write payload of one property, as setPropertyValue builds it; Null  *)
(* when the caller is to omit the property.                                *)
(***************************************************************************)
\* the 'status' case of setPropertyValue if line 106 compared the names as written
StatusNameExact(options, value) ==
  LET match == SelectSeq(options, LAMBDA o : o = ToStr(value))
  IN  IF match # <<>> THEN match[1]
      ELSE IF options # <<>> /\ options[1] # "" THEN options[1]
      ELSE ToStr(value)

\* the 'status' case of setPropertyValue: the matching option, else the first, else the value
StatusName(options, value) ==
  LET match == SelectSeq(options, LAMBDA o : Lower(o) = Lower(ToStr(value)))
  IN  IF match # <<>> THEN match[1]
      ELSE IF options # <<>> /\ options[1] # "" THEN options[1]
      ELSE ToStr(value)

\* the switch of lines 87-112
Encode(propertySchema, value) ==
  CASE propertySchema.type = "title" -> Prop("title", <<ToStr(value)>>)
    [] propertySchema.type = "rich_text" -> Prop("rich_text", <<ToStr(value)>>)
    [] propertySchema.type = "select" -> Prop("select", Str(ToStr(value)))
    [] propertySchema.type = "multi_select" ->
         Prop("multi_select",
              IF value.kind = "array"
              THEN [i \in 1..Len(value.val) |-> ToStr(value.val[i])]
              ELSE <<ToStr(value)>>)
    [] propertySchema.type = "checkbox" -> Prop("checkbox", Bool(Truthy(value)))
    [] propertySchema.type = "date" -> Prop("date", value)
    [] propertySchema.type = "url" -> Prop("url", Str(ToStr(value)))
    [] propertySchema.type = "number" -> Prop("number", ToNum(value))
    [] propertySchema.type = "status" ->
         Prop("status", Str(StatusName(propertySchema.options, value)))
    [] OTHER -> Null

\* setPropertyValue without its line 86: a null value is encoded like any other
setPropertyValueOfNull(propertyName, propertySchema, value) ==
  Encode(propertySchema, value)

setPropertyValue(propertyName, propertySchema, value) ==
  IF value.kind \in {"undefined", "null"} THEN Null
  ELSE Encode(propertySchema, value)

(***************************************************************************)
(* Request bodies.  req.body.properties is Undefined or an object, written *)
(* Obj(f) with f a function from its keys to JavaScript values.            *)
(***************************************************************************)
Obj(f) == [kind |-> "object", val |-> f]

\* obj[key]
Get(obj, key) == IF key \in DOMAIN obj.val THEN obj.val[key] ELSE Undefined

\* a === b on the scalars compared in the handlers
StrictEq(a, b) ==
  /\ a.kind = b.kind
  /\ a.kind \in {"string", "boolean", "number"} => a.val = b.val
  /\ a.kind # "NaN"

\* !properties || typeof properties !== 'object'
NotAnObject(properties) == properties.kind # "object"

\* the loop of lines 173-182: the payload POST /api/tasks sends
CreateProps(schema, properties) ==
  LET formatted(key) ==
        setPropertyValue(key, Lookup(schema.properties, key), properties.val[key])
      kept == {key \in DOMAIN properties.val :
                 /\ ~(/\ StrictEq(properties.val[key], Str(""))
                      /\ ~StrictEq(Str(key), schema.titleProperty))
                 /\ Lookup(schema.properties, key) # NoDef
                 /\ formatted(key) # Null}
  IN  [key \in kept |-> formatted(key)]

\* the loop of lines 209-213: the payload PATCH /api/tasks/:id starts from
UpdateProps(schema, properties) ==
  LET formatted(key) ==
        setPropertyValue(key, Lookup(schema.properties, key), properties.val[key])
      kept == {key \in DOMAIN properties.val :
                 /\ Lookup(schema.properties, key) # NoDef
                 /\ formatted(key) # Null}
  IN  [key \in kept |-> formatted(key)]

\* line 222 if it wrote opts[0].name whatever the flag
CompletedStatusFirstChoice(opts, completed) ==
  IF opts # <<>> THEN [threw |-> FALSE, name |-> opts[1]]
  ELSE [threw |-> TRUE, name |-> ""]

\* line 222: the status name for the completed flag; threw when done[0] is undefined
CompletedStatus(opts, completed) ==
  LET done == SelectSeq(opts, IsDoneLike)
      notDone == SelectSeq(opts, LAMBDA o : ~IsDoneLike(o))
  IN  IF Truthy(completed) /\ done # <<>> THEN [threw |-> FALSE, name |-> done[1]]
      ELSE IF notDone # <<>> /\ notDone[1] # "" THEN [threw |-> FALSE, name |-> notDone[1]]
      ELSE IF done # <<>> THEN [threw |-> FALSE, name |-> done[1]]
      ELSE [threw |-> TRUE, name |-> ""]

\* lines 208-224 if lines 217-223 assigned notionProps[cb] only when the loop
\* of lines 209-213 had not set it
UpdatePayloadKeepNamed(schema, properties) ==
  LET notionProps == UpdateProps(schema, properties)
      cb == schema.checkboxProperties[1]
      ps == Lookup(schema.properties, cb)
      picked == CompletedStatus(ps.options, Get(properties, "completed"))
      Put(value) == [key \in DOMAIN notionProps \cup {cb} |->
                       IF key \in DOMAIN notionProps THEN notionProps[key] ELSE value]
  IN  IF "completed" \in DOMAIN properties.val /\ Len(schema.checkboxProperties) # 0
      THEN CASE ps.type = "checkbox" ->
                  [threw |-> FALSE,
                   props |-> Put(Prop("checkbox", Bool(Truthy(Get(properties, "completed")))))]
             [] ps.type = "status" ->
                  IF picked.threw THEN [threw |-> TRUE, props |-> <<>>]
                  ELSE [threw |-> FALSE, props |-> Put(Prop("status", Str(picked.name)))]
             [] OTHER -> [threw |-> FALSE, props |-> notionProps]
      ELSE [threw |-> FALSE, props |-> notionProps]

\* lines 208-224: the payload PATCH /api/tasks/:id sends, or the TypeError of line 222
UpdatePayload(schema, properties) ==
  LET notionProps == UpdateProps(schema, properties)
      cb == schema.checkboxProperties[1]
      ps == Lookup(schema.properties, cb)
      picked == CompletedStatus(ps.options, Get(properties, "completed"))
      Put(value) == [key \in DOMAIN notionProps \cup {cb} |->
                       IF key = cb THEN value ELSE notionProps[key]]
  IN  IF "completed" \in DOMAIN properties.val /\ Len(schema.checkboxProperties) # 0
      THEN CASE ps.type = "checkbox" ->
                  [threw |-> FALSE,
                   props |-> Put(Prop("checkbox", Bool(Truthy(Get(properties, "completed")))))]
             [] ps.type = "status" ->
                  IF picked.threw THEN [threw |-> TRUE, props |-> <<>>]
                  ELSE [threw |-> FALSE, props |-> Put(Prop("status", Str(picked.name)))]
             [] OTHER -> [threw |-> FALSE, props |-> notionProps]
      ELSE [threw |-> FALSE, props |-> notionProps]

\* result.properties[key]
PropertyAt(properties, key) ==
  IF key \in DOMAIN properties THEN properties[key] ELSE Undefined

\* line 142 without its fallback: the title is the decoded value as it is
ItemTitleAsDecoded(schema, properties) ==
  IF Truthy(schema.titleProperty)
  THEN PropertyAt(properties, schema.titleProperty.val)
  ELSE Undefined

\* line 142: result.title, Undefined when the code does not set it
ItemTitle(schema, properties) ==
  IF Truthy(schema.titleProperty)
  THEN OrElse(PropertyAt(properties, schema.titleProperty.val), Str("Untitled"))
  ELSE Undefined

\* lines 143-147 run also without a boolean property: completed is then false
ItemCompletedAlways(schema, properties) ==
  LET val == IF schema.checkboxProperties = <<>> THEN Undefined
             ELSE PropertyAt(properties, schema.checkboxProperties[1])
  IN  IF val.kind = "boolean" THEN val
      ELSE IF val.kind = "string" THEN Bool(IsDoneLike(val.val))
      ELSE Bool(FALSE)

\* lines 143-147 if line 146 compared val itself, without toLowerCase()
ItemCompletedCaseSensitive(schema, properties) ==
  LET checkboxProp == IF schema.checkboxProperties = <<>> THEN ""
                      ELSE schema.checkboxProperties[1]
      val == PropertyAt(properties, checkboxProp)
  IN  IF checkboxProp # ""
      THEN (IF val.kind = "boolean" THEN val
            ELSE IF val.kind = "string" THEN Bool(val.val \in DoneWords)
            ELSE Bool(FALSE))
      ELSE Undefined

\* lines 143-147: result.completed, Undefined when the code does not set it
ItemCompleted(schema, properties) ==
  LET checkboxProp == IF schema.checkboxProperties = <<>> THEN ""
                      ELSE schema.checkboxProperties[1]
      val == PropertyAt(properties, checkboxProp)
  IN  IF checkboxProp # ""
      THEN (IF val.kind = "boolean" THEN val
            ELSE IF val.kind = "string" THEN Bool(IsDoneLike(val.val))
            ELSE Bool(FALSE))
      ELSE Undefined

\* lines 139-149 if line 141 copied only the properties the cached schema defines
ToItemKnownKeys(schema, page) ==
  LET properties == [key \in {k \in DOMAIN page.properties :
                                Lookup(schema.properties, k) # NoDef} |->
                       extractPropertyValue(page.properties[key])]
  IN  [id |-> page.id,
       createdAt |-> page.created_time,
       properties |-> properties,
       title |-> ItemTitle(schema, properties),
       completed |-> ItemCompleted(schema, properties)]

\* lines 139-149: the item GET /api/tasks returns for one page
ToItem(schema, page) ==
  LET properties == [key \in DOMAIN page.properties |->
                       extractPropertyValue(page.properties[key])]
  IN  [id |-> page.id,
       createdAt |-> page.created_time,
       properties |-> properties,
       title |-> ItemTitle(schema, properties),
       completed |-> ItemCompleted(schema, properties)]

(***************************************************************************)
(* Bounds of the model.                                                    *)
(***************************************************************************)
\* requests in progress at the same time
NumClients == 2
\* requests the server is given in one run
MaxRequests == 2
\* times the store's columns are edited in one run
MaxEdits == 1

Clients == 1..NumClients

(***************************************************************************)
(* The databases the store may hold (database.properties of line 29).      *)
(***************************************************************************)
NameDef == Def("Name", "title", <<>>)
NotesDef == Def("Notes", "rich_text", <<>>)
TagsDef == Def("Tags", "multi_select", <<>>)
DoneDef == Def("Done", "checkbox", <<>>)
StatusDef(options) == Def("Status", "status", options)

StatusChoices ==
  {<<>>, <<"Todo", "Done">>, <<"Todo", "Doing">>, <<"Done", "Complete">>,
   <<"Todo", "COMPLETED", "Done">>}

Databases ==
  {<<NameDef, StatusDef(c), NotesDef>> : c \in StatusChoices}
    \cup {<<NameDef, DoneDef, NotesDef>>,
          <<NameDef, NotesDef, TagsDef>>,
          <<NotesDef, DoneDef>>,
          <<NameDef, DoneDef, StatusDef(<<"Todo", "Done">>)>>,
          <<NameDef, StatusDef(<<"Todo", "Done">>), DoneDef>>}

(***************************************************************************)
(* The store (the Notion API behind notion.databases and notion.pages).    *)
(***************************************************************************)
\* the value of a property nobody has set
EmptyProp(type) ==
  CASE type \in {"title", "rich_text", "multi_select"} -> Prop(type, <<>>)
    [] type = "checkbox" -> Prop(type, Bool(FALSE))
    [] OTHER -> Prop(type, Null)

\* a value that a column of definition d can hold
Fits(d, prop) ==
  /\ prop.type = d.type
  /\ d.type = "status" /\ prop.value # Null =>
       \E i \in 1..Len(d.options) : d.options[i] = prop.value.val

\* the store accepts a write only of properties its columns can hold
Accepts(defs, props) ==
  \A key \in DOMAIN props : Fits(Lookup(defs, key), props[key])

ColumnNames(defs) == {defs[i].name : i \in 1..Len(defs)}

\* the properties of a page under the columns defs, keeping what still fits
Shape(defs, old) ==
  [key \in ColumnNames(defs) |->
     IF key \in DOMAIN old /\ Fits(Lookup(defs, key), old[key]) THEN old[key]
     ELSE EmptyProp(Lookup(defs, key).type)]

\* the pages a database can hold before any request: one empty, one filled in
FilledProp(d) ==
  CASE d.type \in {"title", "rich_text"} -> Prop(d.type, <<"Buy ", "milk">>)
    [] d.type = "multi_select" -> Prop(d.type, <<"A", "B">>)
    [] d.type = "checkbox" -> Prop(d.type, Bool(TRUE))
    [] d.type = "status" ->
         IF d.options = <<>> THEN Prop(d.type, Null)
         ELSE Prop(d.type, Str(d.options[Len(d.options)]))
    [] OTHER -> Prop(d.type, Null)

InitialProps(defs) ==
  {Shape(defs, <<>>), [key \in ColumnNames(defs) |-> FilledProp(Lookup(defs, key))]}

Page(id, props) == [id |-> id, created_time |-> "t", properties |-> props]

VARIABLES
  storeDefs,       \* the store: the database's columns
  pages,           \* the store: the pages that are not archived, in query order
  nextId,          \* the store: the id of the next page
  edits,           \* times the columns were edited
  databaseSchema,  \* the cache of line 21
  pc,              \* per request: "idle", "fetching" (await of line 27), "ready"
  held,            \* per request: what await getDatabaseSchema() gave
  started,         \* requests given to the server so far
  last,            \* the last response, with the request and the store call made
  items,           \* the UI: useState([]) of line 257, each item as its id
  deletions,       \* the UI: the calls of deleteItem, with what each captured
  uiError,         \* the UI: the error of line 261
  isLoading        \* the UI: line 260

\* the state of the component NotionDatabaseManager
ui == <<items, deletions, uiError, isLoading>>

vars ==
  <<storeDefs, pages, nextId, edits, databaseSchema, pc, held, started, last, ui>>

\* getDatabaseSchema() threw
Thrown == [kind |-> "thrown"]

NoCall == [op |-> "none"]

Response(route, schema, body, status, error, call, data) ==
  [route |-> route, schema |-> schema, body |-> body, status |-> status,
   error |-> error, call |-> call, data |-> data]

Init ==
  /\ storeDefs \in Databases
  /\ \E props \in InitialProps(storeDefs) : pages = <<Page(1, props)>>
  /\ nextId = 2
  /\ edits = 0
  /\ databaseSchema = Null
  /\ pc = [c \in Clients |-> "idle"]
  /\ held = [c \in Clients |-> Undefined]
  /\ started = 0
  /\ last = Response("none", Null, Undefined, 0, "", NoCall, Undefined)
  /\ items = <<>>
  /\ deletions = <<>>
  /\ uiError = ""
  /\ isLoading = TRUE

\* the edits of the columns: the first column is deleted, or a date column is added
ColumnEdits(defs) ==
  (IF defs # <<>> THEN {Tail(defs)} ELSE {})
    \cup (IF Lookup(defs, "Due") = NoDef
          THEN {Append(defs, Def("Due", "date", <<>>))}
          ELSE {})

\* somebody edits the database's columns in the store
EditColumns ==
  /\ edits < MaxEdits
  /\ \E defs \in ColumnEdits(storeDefs) :
       /\ storeDefs' = defs
       /\ pages' = [i \in 1..Len(pages) |->
                      Page(pages[i].id, Shape(defs, pages[i].properties))]
  /\ edits' = edits + 1
  /\ UNCHANGED <<nextId, databaseSchema, pc, held, started, last, ui>>

(***************************************************************************)
(* getDatabaseSchema, lines 24-55.  A handler calls it and awaits it: a    *)
(* cache hit returns at once, a miss issues notion.databases.retrieve and  *)
(* suspends the handler until the store answers.  Which route the request  *)
(* is for matters only when the handler resumes, and is chosen there.      *)
(***************************************************************************)
getDatabaseSchema(c) ==
  /\ pc[c] = "idle"
  /\ started < MaxRequests
  /\ started' = started + 1
  /\ IF databaseSchema # Null
     THEN /\ pc' = [pc EXCEPT ![c] = "ready"]
          /\ held' = [held EXCEPT ![c] = databaseSchema]
     ELSE /\ pc' = [pc EXCEPT ![c] = "fetching"]
          /\ UNCHANGED held
  /\ UNCHANGED <<storeDefs, pages, nextId, edits, databaseSchema, last, ui>>

\* lines 27-50: the store answers, the cache is assigned and returned
RetrieveOk(c) ==
  /\ pc[c] = "fetching"
  /\ databaseSchema' = BuildSchema(storeDefs)
  /\ held' = [held EXCEPT ![c] = BuildSchema(storeDefs)]
  /\ pc' = [pc EXCEPT ![c] = "ready"]
  /\ UNCHANGED <<storeDefs, pages, nextId, edits, started, last, ui>>

\* lines 51-54 if the catch block cached an empty schema before rethrowing
RetrieveFailCaching(c) ==
  /\ pc[c] = "fetching"
  /\ databaseSchema' = BuildSchema(<<>>)
  /\ held' = [held EXCEPT ![c] = Thrown]
  /\ pc' = [pc EXCEPT ![c] = "ready"]
  /\ UNCHANGED <<storeDefs, pages, nextId, edits, started, last, ui>>

\* lines 51-54: the store call failed, the error is rethrown
RetrieveFail(c) ==
  /\ pc[c] = "fetching"
  /\ held' = [held EXCEPT ![c] = Thrown]
  /\ pc' = [pc EXCEPT ![c] = "ready"]
  /\ UNCHANGED <<storeDefs, pages, nextId, edits, databaseSchema, started, last, ui>>

\* the handler of request c has answered
Answer(c, response) ==
  /\ pc' = [pc EXCEPT ![c] = "idle"]
  /\ held' = [held EXCEPT ![c] = Undefined]
  /\ last' = response

\* lines 121-125: what GET /api/schema shows of each property
SchemaView(schema) ==
  [i \in 1..Len(schema.properties) |->
     [name |-> schema.properties[i].name,
      type |-> schema.properties[i].type,
      options |-> IF schema.properties[i].type \in {"select", "multi_select", "status"}
                  THEN Arr([j \in 1..Len(schema.properties[i].options) |->
                              Str(schema.properties[i].options[j])])
                  ELSE Null]]

\* GET /api/schema, lines 116-131
GetSchema(c) ==
  /\ pc[c] = "ready"
  /\ IF held[c] = Thrown
     THEN Answer(c, Response("GET schema", Null, Undefined, 500,
                             "Failed to fetch database schema", NoCall, Undefined))
     ELSE Answer(c, Response("GET schema", held[c], Undefined, 200, "", NoCall,
                             [titleProperty |-> held[c].titleProperty,
                              properties |-> SchemaView(held[c])]))
  /\ UNCHANGED <<storeDefs, pages, nextId, edits, databaseSchema, started, ui>>

\* GET /api/tasks, lines 134-155
ListTasks(c) ==
  /\ pc[c] = "ready"
  /\ IF held[c] = Thrown
     THEN Answer(c, Response("GET tasks", Null, Undefined, 500,
                             "Failed to fetch items from database", NoCall, Undefined))
     ELSE \E ok \in BOOLEAN :
            IF ok
            THEN Answer(c, Response("GET tasks", held[c], Undefined, 200, "",
                                    [op |-> "query", ok |-> TRUE],
                                    [i \in 1..Len(pages) |-> ToItem(held[c], pages[i])]))
            ELSE Answer(c, Response("GET tasks", held[c], Undefined, 500,
                                    "Failed to fetch items from database",
                                    [op |-> "query", ok |-> FALSE], Undefined))
  /\ UNCHANGED <<storeDefs, pages, nextId, edits, databaseSchema, started, ui>>

(***************************************************************************)
(* The request bodies the model sends: req.body.properties.                *)
(***************************************************************************)
EmptyObject == Obj([key \in {} |-> Null])

CreateBodies ==
  {Undefined,
   EmptyObject,
   Obj("Name" :> Str("")),
   Obj("Name" :> Str("Buy milk") @@ "Notes" :> Str("") @@ "Status" :> Null
         @@ "Done" :> Null @@ "Bogus" :> Str("x")),
   Obj("Name" :> Str("Buy milk") @@ "Notes" :> Str("hi") @@ "Status" :> Str("done")
         @@ "Tags" :> Arr(<<Str("A"), Str("B")>>)),
   Obj("Name" :> Str("Buy milk") @@ "Status" :> Str("Blocked") @@ "Done" :> Bool(TRUE))}

UpdateBodies ==
  {Obj("completed" :> Bool(TRUE)),
   Obj("completed" :> Bool(FALSE)),
   Obj("Name" :> Str("") @@ "Notes" :> Str("") @@ "Status" :> Null @@ "Done" :> Null
         @@ "Bogus" :> Str("x")),
   Obj("Notes" :> Str("hi") @@ "Status" :> Str("done") @@ "Tags" :> Str("A")),
   Obj("completed" :> Bool(TRUE) @@ "Status" :> Str("Todo") @@ "Done" :> Bool(FALSE)),
   Obj("completed" :> Bool(FALSE) @@ "Status" :> Str("done") @@ "Done" :> Bool(TRUE))}

\* the ids the store can have given out: the first page's and one per request
PageIds == 1..(MaxRequests + 1)

HasPage(id) == \E i \in 1..Len(pages) : pages[i].id = id

\* lines 161-169 without the check of line 168
CreateRejectionNoTitleCheck(schema, properties) ==
  IF ~Truthy(schema.titleProperty) THEN "Database must have a title property"
  ELSE IF NotAnObject(properties) THEN "Properties object is required"
  ELSE ""

\* lines 161-169: the reason POST /api/tasks refuses the request with 400, "" if none
CreateRejection(schema, properties) ==
  IF ~Truthy(schema.titleProperty) THEN "Database must have a title property"
  ELSE IF NotAnObject(properties) THEN "Properties object is required"
  ELSE IF ~Truthy(Get(properties, schema.titleProperty.val))
  THEN "Title property is required"
  ELSE ""

\* POST /api/tasks, lines 158-199
CreateTask(c) ==
  /\ pc[c] = "ready"
  /\ LET schema == held[c]
         Reply(properties, status, error, call, data) ==
           Answer(c, Response("POST tasks", schema, properties, status, error, call, data))
     IN  IF schema = Thrown
         THEN /\ Answer(c, Response("POST tasks", Null, Undefined, 500,
                                    "Failed to create item in database", NoCall, Undefined))
              /\ UNCHANGED <<pages, nextId>>
         ELSE \E properties \in CreateBodies :
                IF CreateRejection(schema, properties) # ""
                THEN /\ Reply(properties, 400, CreateRejection(schema, properties), NoCall,
                              Undefined)
                     /\ UNCHANGED <<pages, nextId>>
                ELSE LET notionProps == CreateProps(schema, properties)
                     IN  \/ /\ Accepts(storeDefs, notionProps)
                            /\ pages' = Append(pages,
                                               Page(nextId, Shape(storeDefs, notionProps)))
                            /\ nextId' = nextId + 1
                            /\ Reply(properties, 201, "",
                                     [op |-> "create", ok |-> TRUE,
                                      properties |-> notionProps],
                                     [id |-> nextId,
                                      title |-> Get(properties, schema.titleProperty.val),
                                      createdAt |-> "t",
                                      properties |-> properties])
                         \/ /\ Reply(properties, 500, "Failed to create item in database",
                                     [op |-> "create", ok |-> FALSE,
                                      properties |-> notionProps],
                                     Undefined)
                            /\ UNCHANGED <<pages, nextId>>
  /\ UNCHANGED <<storeDefs, edits, databaseSchema, started, ui>>

\* PATCH /api/tasks/:id, line 206: the body has no properties object
UpdateRejected(c) ==
  /\ pc[c] = "idle"
  /\ started < MaxRequests
  /\ started' = started + 1
  /\ last' = Response("PATCH tasks", Null, Undefined, 400,
                      "Properties object is required", NoCall, Undefined)
  /\ UNCHANGED <<storeDefs, pages, nextId, edits, databaseSchema, pc, held, ui>>

\* PATCH /api/tasks/:id, lines 202-231, from line 207 on
UpdateTask(c) ==
  /\ pc[c] = "ready"
  /\ LET schema == held[c]
         Reply(properties, status, error, call, data) ==
           Answer(c, Response("PATCH tasks", schema, properties, status, error, call, data))
     IN  IF schema = Thrown
         THEN /\ Answer(c, Response("PATCH tasks", Null, Undefined, 500,
                                    "Failed to update item in database", NoCall, Undefined))
              /\ UNCHANGED pages
         ELSE \E properties \in UpdateBodies :
                LET payload == UpdatePayload(schema, properties)
                IN  IF payload.threw
                    THEN /\ Reply(properties, 500, "Failed to update item in database",
                                  NoCall, Undefined)
                         /\ UNCHANGED pages
                    ELSE \E id \in {i \in PageIds : HasPage(i)} :
                           \/ /\ Accepts(storeDefs, payload.props)
                              /\ pages' =
                                   [i \in 1..Len(pages) |->
                                      IF pages[i].id = id
                                      THEN Page(id, [key \in DOMAIN pages[i].properties |->
                                                       IF key \in DOMAIN payload.props
                                                       THEN payload.props[key]
                                                       ELSE pages[i].properties[key]])
                                      ELSE pages[i]]
                              /\ Reply(properties, 200, "",
                                       [op |-> "update", ok |-> TRUE, page_id |-> id,
                                        properties |-> payload.props],
                                       [id |-> id, updated |-> TRUE,
                                        properties |-> properties])
                           \/ /\ Reply(properties, 500, "Failed to update item in database",
                                       [op |-> "update", ok |-> FALSE, page_id |-> id,
                                        properties |-> payload.props],
                                       Undefined)
                              /\ UNCHANGED pages
  /\ UNCHANGED <<storeDefs, nextId, edits, databaseSchema, started, ui>>

\* DELETE /api/tasks/:id, lines 234-243
DeleteTask(c) ==
  /\ pc[c] = "idle"
  /\ started < MaxRequests
  /\ started' = started + 1
  /\ \E id \in {i \in PageIds : HasPage(i)}, ok \in BOOLEAN :
       /\ IF ok
          THEN /\ pages' = SelectSeq(pages, LAMBDA page : page.id # id)
               /\ last' = Response("DELETE tasks", Null, Undefined, 200, "",
                                   [op |-> "archive", ok |-> TRUE, page_id |-> id],
                                   [id |-> id, deleted |-> TRUE])
          ELSE /\ pages' = pages
               /\ last' = Response("DELETE tasks", Null, Undefined, 500,
                                   "Failed to delete item from database",
                                   [op |-> "archive", ok |-> FALSE, page_id |-> id],
                                   Undefined)
  /\ UNCHANGED <<storeDefs, nextId, edits, databaseSchema, pc, held, ui>>

(***************************************************************************)
(* Spec: the server is given its requests one after the other, on every    *)
(* route, while the store's columns may be edited under it.                *)
(***************************************************************************)
Quiet == \A c \in Clients : pc[c] = "idle"

\* a request nothing overlaps is the first client's
Serving == CHOOSE c \in Clients : TRUE

Next ==
  \/ EditColumns
  \/ Quiet /\ getDatabaseSchema(Serving)
  \/ RetrieveOk(Serving)
  \/ RetrieveFail(Serving)
  \/ GetSchema(Serving)
  \/ ListTasks(Serving)
  \/ CreateTask(Serving)
  \/ Quiet /\ UpdateRejected(Serving)
  \/ UpdateTask(Serving)
  \/ Quiet /\ DeleteTask(Serving)

Spec == Init /\ [][Next]_vars

(***************************************************************************)
(* SchemaSpec: requests that overlap.  Every route awaits                  *)
(* getDatabaseSchema() in the same way; the requests here are for          *)
(* GET /api/schema, whose handler does nothing else.                       *)
(***************************************************************************)
SchemaNext ==
  \/ EditColumns
  \/ \E c \in Clients :
       \/ getDatabaseSchema(c)
       \/ RetrieveOk(c)
       \/ RetrieveFail(c)
       \/ GetSchema(c)

SchemaSpec == Init /\ [][SchemaNext]_vars

(***************************************************************************)
(* The schema cache under overlapping requests (SchemaSpec).               *)
(***************************************************************************)
Fetching == {c \in Clients : pc[c] = "fetching"}

\* C1: getSchema has at most one fetch in flight: while a fetch is outstanding,
\* a later call awaits it and no second retrieve is issued to the store.
C1_AtMostOneFetchInFlight == Cardinality(Fetching) <= 1

\* C2: a failed fetch is rethrown to the caller and leaves the cache as it was
\* (empty stays empty); with the cache empty every call issues a fresh fetch,
\* and a fetch that succeeds, after however many failures, fills the cache
\* with what it returns.
C2_FailureDoesNotPoison ==
  [][\A c \in Clients :
       /\ (pc[c] = "fetching" /\ pc'[c] = "ready" /\ held'[c] = Thrown)
            => databaseSchema' = databaseSchema
       /\ (pc[c] = "ready" /\ held[c] = Thrown /\ pc'[c] = "idle")
            => last'.status = 500 /\ databaseSchema' = databaseSchema
       /\ (pc[c] = "idle" /\ pc'[c] # "idle" /\ databaseSchema = Null)
            => pc'[c] = "fetching"
       /\ (pc[c] = "fetching" /\ pc'[c] = "ready" /\ held'[c] # Thrown)
            => databaseSchema' # Null /\ held'[c] = databaseSchema']_vars

\* a fetch has failed and its caller was answered 500, the cache is still empty,
\* and the next call has issued a fresh fetch
C2_Witness ==
  /\ last.route = "GET schema"
  /\ last.status = 500
  /\ databaseSchema = Null
  /\ Fetching # {}
  /\ started = 2

\* C3: the cache is filled once and never changes again: once it is filled it
\* is never assigned or cleared, no further retrieve is issued, and every call
\* that returns returns the cached schema.
C3_PopulatedOnceNeverChanged ==
  [][databaseSchema # Null =>
       /\ databaseSchema' = databaseSchema
       /\ \A c \in Clients :
            /\ pc[c] # "fetching" => pc'[c] # "fetching"
            /\ (pc[c] # "ready" /\ pc'[c] = "ready" /\ held'[c] # Thrown)
                 => held'[c] = databaseSchema]_vars

(***************************************************************************)
(* The translation of requests and records (Spec).  `last` holds the last  *)
(* response with its request, the schema the handler used and the call it  *)
(* made to the store.                                                      *)
(***************************************************************************)
Wrote == last.call.op \in {"create", "update"}

\* the schema's boolean property, schema.checkboxProperties[0], and its definition
BooleanName(schema) == schema.checkboxProperties[1]
BooleanDef(schema) == Lookup(schema.properties, BooleanName(schema))

\* an update whose request carries the completed flag, under a schema whose
\* boolean property is of Status kind
StatusFlagUpdate(flag) ==
  /\ last.route = "PATCH tasks"
  /\ last.schema # Null
  /\ last.body # Undefined
  /\ "completed" \in DOMAIN last.body.val
  /\ StrictEq(last.body.val["completed"], Bool(flag))
  /\ last.schema.checkboxProperties # <<>>
  /\ BooleanDef(last.schema).type = "status"

\* name is the first choice of C, in declaration order, that Test accepts
FirstThat(C, Test(_), name) ==
  \E i \in 1..Len(C) : Test(C[i]) /\ C[i] = name /\ \A j \in 1..(i - 1) : ~Test(C[j])

\* the status name the update wrote for the boolean property is name
WroteStatus(name) ==
  /\ last.call.op = "update"
  /\ BooleanName(last.schema) \in DOMAIN last.call.properties
  /\ last.call.properties[BooleanName(last.schema)] = Prop("status", Str(name))

NotDoneLike(name) == ~IsDoneLike(name)

\* C4: with a Status-kind boolean property of choices C, an update with
\* completed = true sends a payload in which the boolean property is set, for
\* every C (also C empty or without a done-like choice), and set to the first
\* done-like choice of C when C has one.
C4_CompletedTrueWritesDoneLike ==
  StatusFlagUpdate(TRUE) =>
    LET C == BooleanDef(last.schema).options
    IN  /\ last.call.op = "update"
        /\ BooleanName(last.schema) \in DOMAIN last.call.properties
        /\ (\E i \in 1..Len(C) : IsDoneLike(C[i]))
             => \E i \in 1..Len(C) : /\ FirstThat(C, IsDoneLike, C[i])
                                     /\ WroteStatus(C[i])

\* C5: with a Status-kind boolean property, an update with completed = false
\* writes the first choice that is not done-like, or the first done-like
\* choice when every choice is done-like; the property is never left out of
\* the payload.
C5_CompletedFalseWritesNotDone ==
  StatusFlagUpdate(FALSE) =>
    LET C == BooleanDef(last.schema).options
    IN  /\ last.call.op = "update"
        /\ BooleanName(last.schema) \in DOMAIN last.call.properties
        /\ \E i \in 1..Len(C) :
             /\ WroteStatus(C[i])
             /\ IF \E j \in 1..Len(C) : NotDoneLike(C[j])
                THEN FirstThat(C, NotDoneLike, C[i])
                ELSE FirstThat(C, IsDoneLike, C[i])

\* C6: on record creation and on record update alike, no property that the
\* request gives the value "" is in the payload sent to the store, unless it
\* is the title property.
C6_EmptyStringsSkipped ==
  Wrote =>
    \A key \in DOMAIN last.body.val :
      (/\ StrictEq(last.body.val[key], Str(""))
       /\ ~StrictEq(Str(key), last.schema.titleProperty))
        => key \notin DOMAIN last.call.properties

\* the request without the keys the schema has no definition for (the
\* completed flag of an update is not a property key)
KnownOnly(schema, properties) ==
  Obj([key \in {k \in DOMAIN properties.val :
                  k = "completed" \/ Lookup(schema.properties, k) # NoDef}
         |-> properties.val[key]])

\* the key is the boolean property an update sets from the completed flag
FromFlag(key) ==
  /\ last.route = "PATCH tasks"
  /\ "completed" \in DOMAIN last.body.val
  /\ last.schema.checkboxProperties # <<>>
  /\ key = BooleanName(last.schema)

\* C7: unknown keys and null values are dropped silently: every key of the
\* payload sent to the store is a key of the cached schema with a payload that
\* is not null and a requested value that is not null, and a request is
\* treated as the same request without its unknown keys is (same refusal,
\* same payload): an unknown key never makes it fail.
C7_UnknownKeysAndNullsDropped ==
  (last.route \in {"POST tasks", "PATCH tasks"} /\ last.schema # Null
     /\ last.body # Undefined) =>
    LET known == KnownOnly(last.schema, last.body)
    IN  /\ Wrote =>
              \A key \in DOMAIN last.call.properties :
                /\ Lookup(last.schema.properties, key) # NoDef
                /\ last.call.properties[key] # Null
                /\ ~FromFlag(key) =>
                     /\ key \in DOMAIN last.body.val
                     /\ last.body.val[key].kind \notin {"null", "undefined"}
        /\ last.route = "POST tasks" =>
             /\ last.call.op = "none" <=> CreateRejection(last.schema, known) # ""
             /\ last.call.op = "none" => last.status = 400
             /\ Wrote => last.call.properties = CreateProps(last.schema, known)
        /\ last.route = "PATCH tasks" =>
             /\ last.call.op = "none" <=> UpdatePayload(last.schema, known).threw
             /\ Wrote => last.call.properties = UpdatePayload(last.schema, known).props

\* a request with an unknown key and a null value was written to the store
C7_Witness ==
  /\ Wrote
  /\ last.call.ok
  /\ "Bogus" \in DOMAIN last.body.val
  /\ Lookup(last.schema.properties, "Bogus") = NoDef
  /\ \E key \in DOMAIN last.body.val :
       /\ Lookup(last.schema.properties, key) # NoDef
       /\ last.body.val[key] = Null

\* C8: a create request whose properties lack the schema's title property, or
\* give it an empty value, is refused with the missing-title error and no call
\* to the store; under a schema with no title property it is refused with the
\* configuration error, again with no call to the store and no crash.
C8_CreateRequiresTitle ==
  (last.route = "POST tasks" /\ last.schema # Null) =>
    /\ ~Truthy(last.schema.titleProperty) =>
         /\ last.status = 400
         /\ last.error = "Database must have a title property"
         /\ last.call = NoCall
    /\ (/\ Truthy(last.schema.titleProperty)
        /\ last.body # Undefined
        /\ \/ last.schema.titleProperty.val \notin DOMAIN last.body.val
           \/ StrictEq(last.body.val[last.schema.titleProperty.val], Str(""))) =>
         /\ last.status = 400
         /\ last.error = "Title property is required"
         /\ last.call = NoCall

\* a create request that gives the title property the value "" was refused
C8_Witness ==
  /\ last.route = "POST tasks"
  /\ last.schema # Null
  /\ Truthy(last.schema.titleProperty)
  /\ last.body = Obj("Name" :> Str(""))
  /\ last.status = 400

\* the records GET /api/tasks returned under a schema with no boolean property
ListedWithoutBoolean ==
  /\ last.route = "GET tasks"
  /\ last.status = 200
  /\ last.schema.checkboxProperties = <<>>

\* C9: a record read under a schema with no Checkbox or Status property
\* always has completed = false.
C9_NoBooleanGivesFalse ==
  ListedWithoutBoolean =>
    \A i \in 1..Len(last.data) : last.data[i].completed = Bool(FALSE)

\* C9 as amended: a record read under a schema with no Checkbox or Status
\* property has no completed field at all (undefined, never true and never the
\* boolean false).
C9_NoBooleanGivesNoCompleted ==
  ListedWithoutBoolean =>
    \A i \in 1..Len(last.data) : last.data[i].completed = Undefined

\* a record was read under a schema with no boolean property
C9_Witness == ListedWithoutBoolean /\ Len(last.data) > 0

\* the title of the item is empty or missing: the title property decodes to
\* "" or the record has no value for it
TitleEmptyOrMissing(schema, item) ==
  \/ schema.titleProperty.val \notin DOMAIN item.properties
  \/ StrictEq(item.properties[schema.titleProperty.val], Str(""))

\* C10: a record whose title is empty or missing is read with the title
\* "Untitled" (under a schema that has a title property).
C10_EmptyTitleIsUntitled ==
  (last.route = "GET tasks" /\ last.status = 200 /\ Truthy(last.schema.titleProperty)) =>
    \A i \in 1..Len(last.data) :
      TitleEmptyOrMissing(last.schema, last.data[i])
        => StrictEq(last.data[i].title, Str("Untitled"))

\* a record that has no value for the cached schema's title property was read
C10_Witness ==
  /\ last.route = "GET tasks"
  /\ last.status = 200
  /\ Truthy(last.schema.titleProperty)
  /\ \E i \in 1..Len(last.data) :
       /\ last.schema.titleProperty.val \notin DOMAIN last.data[i].properties
       /\ StrictEq(last.data[i].title, Str("Untitled"))

(***************************************************************************)
(* The completed flag on read (Spec).                                      *)
(***************************************************************************)
\* the kinds of property that can be the schema's boolean property
BooleanTypes == {"checkbox", "status"}

\* the first property whose kind is Checkbox or Status, in definition order
FirstBoolean(schema) ==
  LET props == schema.properties
      first == CHOOSE i \in 1..Len(props) :
                 /\ props[i].type \in BooleanTypes
                 /\ \A j \in 1..(i - 1) : props[j].type \notin BooleanTypes
  IN  props[first].name

\* the records GET /api/tasks returned under a schema with a boolean property
ListedWithBoolean ==
  /\ last.route = "GET tasks"
  /\ last.status = 200
  /\ \E i \in 1..Len(last.schema.properties) :
       last.schema.properties[i].type \in BooleanTypes

\* C11: on read, completed is derived only from the schema's boolean property,
\* the first Checkbox- or Status-kind property in definition order: a boolean
\* value is passed through unchanged, a string value gives true exactly when
\* it is, whatever its case, one of done, complete, completed, and every other
\* value (null for an unset status, or no value at all) gives false.
C11_CompletedFromBooleanProperty ==
  ListedWithBoolean =>
    \A i \in 1..Len(last.data) :
      LET val == PropertyAt(last.data[i].properties, FirstBoolean(last.schema))
      IN  /\ val.kind = "boolean" => last.data[i].completed = val
          /\ val.kind = "string" =>
               last.data[i].completed = Bool(Lower(val.val) \in DoneWords)
          /\ val.kind \notin {"boolean", "string"} =>
               last.data[i].completed = Bool(FALSE)

\* a record was read as completed from a status written with capitals, and a
\* record was read whose later boolean-kind property disagrees with completed
C11_Witness ==
  /\ ListedWithBoolean
  /\ \E i \in 1..Len(last.data) :
       LET val == PropertyAt(last.data[i].properties, FirstBoolean(last.schema))
       IN  /\ val.kind = "string"
           /\ val.val \notin DoneWords
           /\ last.data[i].completed = Bool(TRUE)
           /\ \E key \in DOMAIN last.data[i].properties :
                /\ key # FirstBoolean(last.schema)
                /\ last.data[i].properties[key] = Bool(FALSE)

(***************************************************************************)
(* The encoding of a Status-kind property (Spec).                          *)
(***************************************************************************)
\* the keys of the request that name a Status-kind property of the schema and
\* give it a value setPropertyValue encodes (not null, and on creation not "")
StatusKeys ==
  {key \in DOMAIN last.body.val :
     /\ Lookup(last.schema.properties, key).type = "status"
     /\ last.body.val[key].kind \notin {"null", "undefined"}
     /\ last.route = "POST tasks" => ~StrictEq(last.body.val[key], Str(""))}

\* a create or update request that reached the translation of its properties
Translated ==
  /\ last.route \in {"POST tasks", "PATCH tasks"}
  /\ last.schema # Null
  /\ last.body # Undefined
  /\ last.status # 400

\* the update crashed at line 222, on the completed flag (no choice to write)
FlagCrash ==
  /\ last.route = "PATCH tasks"
  /\ "completed" \in DOMAIN last.body.val
  /\ last.schema.checkboxProperties # <<>>
  /\ BooleanDef(last.schema).type = "status"
  /\ BooleanDef(last.schema).options = <<>>

\* name is what encode is to write for value under the declared choices C
DeclaredChoiceFor(C, value, name) ==
  LET Same(i) == Lower(C[i]) = Lower(ToStr(value))
  IN  IF \E i \in 1..Len(C) : Same(i)
      THEN \E i \in 1..Len(C) :
             Same(i) /\ name = C[i] /\ \A j \in 1..(i - 1) : ~Same(j)
      ELSE name = C[1]

\* C12: encode for a Status-kind property never fails and, when the property
\* has at least one declared choice, always writes a declared choice: the
\* declared choice whose name equals the requested value whatever the case,
\* in its declared spelling, if there is one, otherwise the first declared
\* choice.
C12_StatusWritesDeclaredChoice ==
  Translated =>
    \A key \in StatusKeys :
      /\ last.call.op = "none" => FlagCrash
      /\ (Wrote /\ ~FromFlag(key)) =>
           /\ key \in DOMAIN last.call.properties
           /\ last.call.properties[key].type = "status"
           /\ Lookup(last.schema.properties, key).options # <<>> =>
                DeclaredChoiceFor(Lookup(last.schema.properties, key).options,
                                  last.body.val[key],
                                  last.call.properties[key].value.val)

\* a status was requested in another case than declared and written as declared,
\* and the store accepted it
C12_Witness ==
  /\ Translated
  /\ Wrote
  /\ last.call.ok
  /\ \E key \in StatusKeys :
       /\ ~FromFlag(key)
       /\ last.call.properties[key].value.val # ToStr(last.body.val[key])
       /\ Lower(last.call.properties[key].value.val) = Lower(ToStr(last.body.val[key]))

(***************************************************************************)
(* MultiSelect values on the way out and on the way in (Spec).             *)
(***************************************************************************)
\* the step in which GET /api/tasks answers with the records
ListStep ==
  /\ \E c \in Clients : pc[c] = "ready" /\ pc'[c] = "idle"
  /\ last'.route = "GET tasks"
  /\ last'.status = 200

\* the step in which a create or an update answers after its call to the store
WriteStep ==
  /\ \E c \in Clients : pc[c] = "ready" /\ pc'[c] = "idle"
  /\ last'.call.op \in {"create", "update"}

\* the keys of the request that give a MultiSelect property a sequence of names
SequenceKeys(response) ==
  {key \in DOMAIN response.body.val :
     /\ Lookup(response.schema.properties, key).type = "multi_select"
     /\ response.body.val[key].kind = "array"}

\* C13: the MultiSelect round trip preserves order and content: decode returns
\* the option names in their stored order (the empty sequence, never null,
\* when none is chosen), encode of a sequence of names gives one chosen option
\* for each element in the same order, and encode(decode(v)) names exactly the
\* options of v in order.
C13_MultiSelectRoundTrip ==
  [][/\ ListStep =>
          \A i \in 1..Len(pages) :
            \A key \in DOMAIN pages[i].properties :
              pages[i].properties[key].type = "multi_select" =>
                LET stored == pages[i].properties[key].value
                    decoded == last'.data[i].properties[key]
                IN  /\ decoded.kind = "array"
                    /\ Len(decoded.val) = Len(stored)
                    /\ \A j \in 1..Len(stored) : decoded.val[j] = Str(stored[j])
                    /\ setPropertyValue(key, Def(key, "multi_select", <<>>), decoded)
                         = Prop("multi_select", stored)
     /\ WriteStep =>
          \A key \in SequenceKeys(last') :
            LET names == last'.body.val[key].val
            IN  /\ key \in DOMAIN last'.call.properties
                /\ last'.call.properties[key].type = "multi_select"
                /\ Len(last'.call.properties[key].value) = Len(names)
                /\ \A j \in 1..Len(names) :
                     Str(last'.call.properties[key].value[j]) = names[j]]_vars

\* the records were read after one was created with a sequence of two names:
\* it is read with the two names in order, next to one with nothing chosen
C13_Witness ==
  /\ last.route = "GET tasks"
  /\ last.status = 200
  /\ \E i \in 1..Len(last.data) :
       /\ last.data[i].id = 2
       /\ PropertyAt(last.data[i].properties, "Tags") = Arr(<<Str("A"), Str("B")>>)
  /\ \E i \in 1..Len(last.data) :
       PropertyAt(last.data[i].properties, "Tags") = Arr(<<>>)

(***************************************************************************)
(* The keys of the records read (Spec).                                    *)
(***************************************************************************)
\* the keys of the schema's definitions
DefinitionKeys(schema) == ColumnNames(schema.properties)

\* C14: for every record GET /api/tasks returns, the keys of its properties
\* are exactly the keys of the cached schema's definitions that are present on
\* the record in the store at read time, also when the store's columns were
\* changed after the schema was cached.
C14_KeysAreSchemaKeysPresent ==
  [][ListStep =>
       \A i \in 1..Len(pages) :
         DOMAIN last'.data[i].properties
           = DefinitionKeys(last'.schema) \cap DOMAIN pages[i].properties]_vars

\* C14 as amended: the keys of a record's properties are exactly the keys of
\* the record in the store at read time, whether the cached schema defines
\* them or not; they are the schema's keys present on the record whenever the
\* columns are still those the schema was cached from.
C14_KeysAreRecordKeys ==
  [][ListStep =>
       \A i \in 1..Len(pages) :
         /\ last'.data[i].id = pages[i].id
         /\ DOMAIN last'.data[i].properties = DOMAIN pages[i].properties
         /\ storeDefs = last'.schema.properties =>
              DOMAIN last'.data[i].properties
                = DefinitionKeys(last'.schema) \cap DOMAIN pages[i].properties]_vars

\* a record was read with a property of a column added after the schema was
\* cached
C14_Witness ==
  /\ last.route = "GET tasks"
  /\ last.status = 200
  /\ \E i \in 1..Len(last.data) :
       /\ "Due" \in DOMAIN last.data[i].properties
       /\ Lookup(last.schema.properties, "Due") = NoDef

(***************************************************************************)
(* The completed flag of an update and the rest of its payload (Spec).     *)
(***************************************************************************)
\* an update whose request carries a boolean completed flag sent a payload
FlagUpdateSent ==
  /\ last.route = "PATCH tasks"
  /\ last.call.op = "update"
  /\ "completed" \in DOMAIN last.body.val
  /\ last.body.val["completed"].kind = "boolean"

\* the entry the completed flag alone gives a boolean property of definition d
FlagEntry(d, flag, entry) ==
  CASE d.type = "checkbox" -> entry = Prop("checkbox", Bool(flag))
    [] d.type = "status" ->
         /\ entry.type = "status"
         /\ IF flag /\ \E i \in 1..Len(d.options) : IsDoneLike(d.options[i])
            THEN FirstThat(d.options, IsDoneLike, entry.value.val)
            ELSE IF \E i \in 1..Len(d.options) : NotDoneLike(d.options[i])
            THEN FirstThat(d.options, NotDoneLike, entry.value.val)
            ELSE FirstThat(d.options, IsDoneLike, entry.value.val)

\* C15: when an update request includes a completed flag and the schema has a
\* boolean property, the payload entry of that property is determined by the
\* flag alone (for Checkbox kind, the boolean itself), whatever value the same
\* request gave that property by name, and every other entry of the payload is
\* exactly as the translation of the request's properties produced it; when
\* the schema has no boolean property the payload is that translation.
C15_FlagOverridesAndFrames ==
  FlagUpdateSent =>
    LET translated == UpdateProps(last.schema, last.body)
        sent == last.call.properties
        flag == last.body.val["completed"].val
    IN  IF last.schema.checkboxProperties = <<>>
        THEN sent = translated
        ELSE /\ BooleanName(last.schema) \in DOMAIN sent
             /\ FlagEntry(BooleanDef(last.schema), flag, sent[BooleanName(last.schema)])
             /\ DOMAIN sent = DOMAIN translated \cup {BooleanName(last.schema)}
             /\ \A key \in DOMAIN sent \ {BooleanName(last.schema)} :
                  sent[key] = translated[key]

\* an update was stored whose flag overrode the value the request gave the
\* boolean property by name, next to another entry that was left as translated
C15_Witness ==
  /\ FlagUpdateSent
  /\ last.call.ok
  /\ last.schema.checkboxProperties # <<>>
  /\ BooleanName(last.schema) \in DOMAIN UpdateProps(last.schema, last.body)
  /\ UpdateProps(last.schema, last.body)[BooleanName(last.schema)]
       # last.call.properties[BooleanName(last.schema)]
  /\ DOMAIN last.call.properties # {BooleanName(last.schema)}

(***************************************************************************)
(* The completed flag written, then read (Spec).                           *)
(***************************************************************************)
\* a boolean property the flag can be written to and read back from: of
\* Checkbox kind, or of Status kind with a done-like and a not-done choice
TwoSided(d) ==
  \/ d.type = "checkbox"
  \/ /\ d.type = "status"
     /\ \E i \in 1..Len(d.options) : IsDoneLike(d.options[i])
     /\ \E i \in 1..Len(d.options) : NotDoneLike(d.options[i])

\* the last request was an update with a completed flag that the store
\* accepted, under a schema with such a boolean property
FlagStored ==
  /\ FlagUpdateSent
  /\ last.call.ok
  /\ last.schema.checkboxProperties # <<>>
  /\ TwoSided(BooleanDef(last.schema))

\* C16: the completed flag written is the completed flag read: for a schema
\* whose boolean property is of Checkbox kind, or of Status kind with at least
\* one done-like and one not-done choice, after an update of a record with
\* completed = b has succeeded and while the store holds what it wrote,
\* GET /api/tasks reports completed = b for that record, for b true and false.
C16_FlagWrittenIsFlagRead ==
  [][(FlagStored /\ ListStep) =>
       \A i \in 1..Len(pages) :
         (/\ pages[i].id = last.call.page_id
          /\ PropertyAt(pages[i].properties, BooleanName(last.schema))
               = last.call.properties[BooleanName(last.schema)]) =>
           /\ last'.data[i].id = last.call.page_id
           /\ last'.data[i].completed = last.body.val["completed"]]_vars

\* a record was read as completed with the status COMPLETED, which only an
\* update with completed = true writes
C16_Witness ==
  /\ last.route = "GET tasks"
  /\ last.status = 200
  /\ last.schema.checkboxProperties # <<>>
  /\ TwoSided(BooleanDef(last.schema))
  /\ \E i \in 1..Len(last.data) :
       /\ PropertyAt(last.data[i].properties, "Status") = Str("COMPLETED")
       /\ last.data[i].completed = Bool(TRUE)

(***************************************************************************)
(* UiSpec: the component NotionDatabaseManager (lines 256-725) in front of *)
(* the server, as far as deleteItem goes.  An item is its id, the only     *)
(* field deleteItem reads; the store is `pages`, which DELETE              *)
(* /api/tasks/:id archives from.  A click handler sees the items of the    *)
(* render it belongs to, which is the render of the current state.         *)
(***************************************************************************)
\* pages in the store when the component mounts
MaxItems == 3
\* clicks on Delete in one run
MaxDeletes == 3

UiInit ==
  /\ storeDefs = <<NameDef, DoneDef, NotesDef>>
  /\ pages = [i \in 1..MaxItems |-> Page(i, Shape(storeDefs, <<>>))]
  /\ nextId = MaxItems + 1
  /\ edits = 0
  /\ databaseSchema = Null
  /\ pc = [c \in Clients |-> "idle"]
  /\ held = [c \in Clients |-> Undefined]
  /\ started = 0
  /\ last = Response("none", Null, Undefined, 0, "", NoCall, Undefined)
  /\ items = <<>>
  /\ deletions = <<>>
  /\ uiError = ""
  /\ isLoading = TRUE

\* what the UI actions leave alone on the server's side
serverButPages == <<storeDefs, nextId, edits, databaseSchema, pc, held, started, last>>

\* fetchItems, lines 289-308, on mount (line 443) or from the Refresh button
\* (line 707) while nothing is displayed: the request and its answer in one step
fetchItems ==
  /\ items = <<>>
  /\ deletions = <<>>
  /\ \E ok \in BOOLEAN :
       IF ok
       THEN /\ items' = [i \in 1..Len(pages) |-> pages[i].id]
            /\ uiError' = ""
       ELSE /\ items' = items
            /\ uiError' = "Failed to load items. Make sure your backend server is running."
  /\ isLoading' = FALSE
  /\ UNCHANGED <<pages, deletions, serverButPages>>

\* deleteItem(id), lines 389-397: the copy of items, the optimistic removal,
\* and the DELETE request sent
deleteItem(id) ==
  /\ Len(deletions) < MaxDeletes
  /\ \E i \in 1..Len(items) : items[i] = id
  /\ items' = SelectSeq(items, LAMBDA i : i # id)
  /\ deletions' = Append(deletions,
                         [id |-> id, originalItems |-> items, state |-> "sent"])
  /\ UNCHANGED <<pages, uiError, isLoading, serverButPages>>

\* lines 234-238 and 399: the server archived the page and answered 200
DeleteSucceeded(r) ==
  /\ deletions[r].state = "sent"
  /\ pages' = SelectSeq(pages, LAMBDA page : page.id # deletions[r].id)
  /\ deletions' = [deletions EXCEPT ![r].state = "ok"]
  /\ UNCHANGED <<items, uiError, isLoading, serverButPages>>

\* lines 239-242 and 399-407: the server answered 500 (or fetch rejected),
\* and the catch block puts the copied items back
DeleteFailed(r) ==
  /\ deletions[r].state = "sent"
  /\ items' = deletions[r].originalItems
  /\ uiError' = "Failed to delete item. Please try again."
  /\ deletions' = [deletions EXCEPT ![r].state = "failed"]
  /\ UNCHANGED <<pages, isLoading, serverButPages>>

UiNext ==
  \/ fetchItems
  \/ \E id \in 1..MaxItems : deleteItem(id)
  \/ \E r \in 1..Len(deletions) : DeleteSucceeded(r)
  \/ \E r \in 1..Len(deletions) : DeleteFailed(r)

UiSpec == UiInit /\ [][UiNext]_vars

\* every delete request has settled
Settled ==
  /\ deletions # <<>>
  /\ \A r \in 1..Len(deletions) : deletions[r].state # "sent"

\* the delete requests were for distinct items
OnDistinctItems ==
  \A r, q \in 1..Len(deletions) : deletions[r].id = deletions[q].id => r = q

Displayed == {items[i] : i \in 1..Len(items)}

\* the items whose delete did not succeed: those the store still holds
NotDeleted == {pages[i].id : i \in 1..Len(pages)}

\* C17: optimistic deletes converge to the outcome of the requests: for any
\* interleaving of delete requests (also a second delete started while the
\* first is in flight), once all requests have settled the displayed list
\* holds exactly the items whose delete did not succeed: a failed delete
\* restores only its own item and never brings back one whose delete succeeded.
C17_DeletesConverge == (Settled /\ OnDistinctItems) => Displayed = NotDeleted

====
